---- MODULE Spec2Model ----
(***************************************************************************)
(* PropGrid service worker (sw.js): install / activate / fetch / sync /    *)
(* message handlers over the Cache Storage of one origin.                  *)
(*                                                                         *)
(* Two versions of the worker share the cache storage: "new" is the worker *)
(* of the source file, "old" is the version it replaces (the same code     *)
(* with its own STATIC_CACHE / DYNAMIC_CACHE names).  Every await of an    *)
(* async handler is a separate step, so handlers interleave at awaits.     *)
(***************************************************************************)
EXTENDS Integers, Sequences, FiniteSets, TLC

\* ---------------------------------------------------------------- bounds
\* Fetch/sync/message handlers that can be in flight at once.
MaxHandlers == 2
\* Fetch, sync and message events and page writes in one run.
MaxEvents == 2

\* ------------------------------------------------------------- constants
STATIC_CACHE == "propgrid-static-v1.0.0"
DYNAMIC_CACHE == "propgrid-dynamic-v1.0.0"
\* The generations of the version being replaced.
OLD_STATIC_CACHE == "propgrid-static-v0.9.0"
OLD_DYNAMIC_CACHE == "propgrid-dynamic-v0.9.0"

Versions == {"old", "new"}
StaticCacheOf(v) == IF v = "new" THEN STATIC_CACHE ELSE OLD_STATIC_CACHE
DynamicCacheOf(v) == IF v = "new" THEN DYNAMIC_CACHE ELSE OLD_DYNAMIC_CACHE
CacheNameSet == {STATIC_CACHE, DYNAMIC_CACHE, OLD_STATIC_CACHE, OLD_DYNAMIC_CACHE}

TAILWIND_URL == "https://cdn.tailwindcss.com"
FONTS_URL == "https://fonts.googleapis.com/css2?family=Inter:wght@400;500;600;700&display=swap"
FONTAWESOME_URL == "https://cdnjs.cloudflare.com/ajax/libs/font-awesome/6.4.0/css/all.min.css"
\* A web-font request that subsets the font to the characters of a text.
FONTS_TEXT_URL == "https://fonts.googleapis.com/css2?family=Inter&text=tailwindcss.com"
EXTERNAL_URL == "https://www.google-analytics.com/collect"
OFFLINE_URL == "/offline.html"
FORM_DATA_URL == "/form-data"
SIGNUP_URL == "/api/signup"

\* Mutant: the manifest without the icon-font stylesheet.
STATIC_FILES_short == << "/", "/index.html", "/script.js", TAILWIND_URL, FONTS_URL >>
\* const STATIC_FILES = [...]
STATIC_FILES == << "/", "/index.html", "/script.js", TAILWIND_URL, FONTS_URL, FONTAWESOME_URL >>

Range(s) == {s[k] : k \in DOMAIN s}

\* The URLs the page requests in this model.
RequestUrls == {"/", OFFLINE_URL, TAILWIND_URL, FONTS_URL, FONTS_TEXT_URL, EXTERNAL_URL}
\* The old version is followed only through its requests for the home page.
RequestUrlsOf(v) == IF v = "new" THEN RequestUrls ELSE {"/"}
Methods == {"GET", "POST"}
\* What the network serves is named after the event whose handler fetched
\* it (1, 2, ...): no two fetches are assumed to return the same content.
\* The install-time copies are content 0, those of the old version -1.
InstallContent(v) == IF v = "new" THEN 0 ELSE 0 - 1

\* new URL(request.url).origin, with relative URLs resolved against the
\* worker's own location.
SelfOrigin == "https://propgrid.example"
OriginOf(url) ==
    CASE url = TAILWIND_URL -> "https://cdn.tailwindcss.com"
      [] url = FONTS_URL -> "https://fonts.googleapis.com"
      [] url = FONTS_TEXT_URL -> "https://fonts.googleapis.com"
      [] url = FONTAWESOME_URL -> "https://cdnjs.cloudflare.com"
      [] url = EXTERNAL_URL -> "https://www.google-analytics.com"
      [] OTHER -> SelfOrigin

\* String.prototype.includes for the needles the worker uses.
Includes(s, needle) ==
    CASE needle = "cdn.tailwindcss.com" -> s \in {TAILWIND_URL, "https://cdn.tailwindcss.com"}
      [] needle = "tailwindcss.com" ->
            s \in {TAILWIND_URL, "https://cdn.tailwindcss.com", FONTS_TEXT_URL}
      [] needle = "fonts.googleapis.com" ->
            s \in {FONTS_URL, FONTS_TEXT_URL, "https://fonts.googleapis.com"}
      [] needle = "cdnjs.cloudflare.com" -> s \in {FONTAWESOME_URL, "https://cdnjs.cloudflare.com"}
      [] OTHER -> FALSE

\* ------------------------------------------------------------- responses
Undefined == [t |-> "undefined"]
Rejected == [t |-> "rejected"]
Pending == [t |-> "pending"]
Resolved == [t |-> "resolved"]
Resp(u, g, st) ==
    [t |-> "response", url |-> u, gen |-> g, status |-> st, ctype |-> "", body |-> ""]
\* Response.ok
Ok(r) == r.t = "response" /\ r.status >= 200 /\ r.status <= 299
\* new Response('/* Tailwind CSS fallback */', {headers: {'Content-Type': 'text/css'}})
TailwindFallback ==
    [t |-> "response", url |-> "", gen |-> 0, status |-> 200,
     ctype |-> "text/css", body |-> "/* Tailwind CSS fallback */"]
\* new Response('Offline', {status: 503, statusText: 'Service Unavailable'})
OfflineResponse ==
    [t |-> "response", url |-> "", gen |-> 0, status |-> 503,
     ctype |-> "", body |-> "Offline"]

VARIABLES
    cacheNames,  \* caches.keys(): the existing cache names, in creation order
    store,       \* store[name][url]: the entry of cache `name` for `url`
    phase,       \* state of the new worker: parsed, installing, installed, ...
    oldControls, \* the old version is active and receives events
    skipWaitingFlag,
    install,     \* the install handler's promise chain
    activate,    \* the activate handler's promise chain
    h,           \* the handlers in flight or last completed, one per slot
    events,      \* events dispatched (and page writes made) so far
    notifications, \* the notifications shown by the worker, in order
    windows,     \* the URLs opened with clients.openWindow, in order
    faq,         \* the FAQ accordion of the page
    form,        \* the multi-step signup form of the page
    menu,        \* the mobile menu of the page
    app,         \* the page's bootstrap: document state, guard, instances
    email,       \* the email simulation component and its AppState fields
    deal         \* the DealCurationForm component: React state and requests

\* The worker's side and the page's side of the state.
swVars == << cacheNames, store, phase, oldControls, skipWaitingFlag, install,
             activate, h, events >>
uiVars == << app, email, deal >>
pageVars == << notifications, windows, faq, form, menu, uiVars >>
vars == << swVars, pageVars >>

\* ------------------------------------------------------- cache storage
Exists(name) == \E k \in DOMAIN cacheNames : cacheNames[k] = name
Has(name, url) == url \in DOMAIN store[name]
EmptyCache == [u \in {} |-> Undefined]

\* caches.open(name): creates the cache when it does not exist.
OpenedNames(name) == IF Exists(name) THEN cacheNames ELSE Append(cacheNames, name)

\* Mutant: an existing entry is kept (first write wins).
PutEntry_keepFirst(c, url, r) ==
    [u \in (DOMAIN c) \cup {url} |-> IF u \in DOMAIN c THEN c[u] ELSE r]
\* cache.put(url, r) / one entry per URL: an existing entry is overwritten.
PutEntry(c, url, r) == [u \in (DOMAIN c) \cup {url} |-> IF u = url THEN r ELSE c[u]]
\* cache.delete(url)
DeleteEntry(c, url) == [u \in (DOMAIN c) \ {url} |-> c[u]]

\* caches.match(url): the first cache, in creation order, holding the URL.
RECURSIVE MatchFrom(_, _)
MatchFrom(k, url) ==
    IF k > Len(cacheNames) THEN Undefined
    ELSE IF Has(cacheNames[k], url) THEN store[cacheNames[k]][url]
    ELSE MatchFrom(k + 1, url)
CachesMatch(url) == MatchFrom(1, url)

\* caches.delete(name)
RemoveName(name) == SelectSeq(cacheNames, LAMBDA n : n # name)


\* ------------------------------------------------------------- handlers
Slots == 1..MaxHandlers
Idle ==
    [ver |-> "new", kind |-> "none", url |-> "", pc |-> "idle", net |-> 0,
     failed |-> FALSE, resp |-> Undefined, cached |-> Undefined,
     result |-> Pending, cache |-> "", orphan |-> FALSE,
     seen |-> Undefined, own |-> Undefined, urls |-> {}, id |-> 0, method |-> ""]
Free(i) == h[i].pc \in {"idle", "done"}
\* A new handler takes the lowest free slot.
FirstFree(i) == Free(i) /\ \A j \in Slots : j < i => ~Free(j)
Start(v, kind, url, pc) ==
    [Idle EXCEPT !.ver = v, !.kind = kind, !.url = url, !.pc = pc, !.id = events + 1]

\* Which version the platform dispatches events to.
Controls(v) == IF v = "new" THEN phase = "activated" ELSE oldControls

\* ------------------------------------------------- the page as loaded
\* Accordion sections on the page.
NumSections == 3
Sections == 1..NumSections
\* The accordion as the markup gives it, with section k open (0: none):
\* the content's class 'open', the button's aria-expanded, the icon's
\* style.transform.
FaqMarkup(k) ==
    [open |-> [x \in Sections |-> x = k],
     expanded |-> [x \in Sections |-> IF x = k THEN "true" ELSE "false"],
     icon |-> [x \in Sections |-> ""]]

\* this.totalSteps = 2
totalSteps == 2
Steps == 1..totalSteps
\* The signup form after the constructor: currentStep = 1, and the elements
\* as the markup gives them (the buttons' class 'hidden' is the markup's).
FormMarkup(prev, next, submit) ==
    [currentStep |-> 1,
     stepHidden |-> [k \in Steps |-> k # 1],
     progress |-> 100 \div totalSteps,
     prevHidden |-> prev, nextHidden |-> next, submitHidden |-> submit,
     valid |-> [k \in Steps |-> FALSE],
     errors |-> [k \in Steps |-> FALSE],
     disabled |-> FALSE, submitting |-> 0, success |-> FALSE,
     submitted |-> [step |-> 0, allValid |-> FALSE]]

\* The mobile menu as the markup gives it: off screen, not expanded.
MenuMarkup ==
    [classes |-> {"translate-x-full"}, expanded |-> "false", overflow |-> "",
     traps |-> 0, trapRef |-> FALSE, focus |-> "page"]

\* The document while the page script has not run yet: readyState as the
\* script will find it, nothing registered, no instance.
AppParsed(readyState) ==
    [pc |-> "script", readyState |-> readyState, hidden |-> FALSE,
     listening |-> FALSE, loadListener |-> FALSE, timeout |-> FALSE,
     appInitialized |-> FALSE, windowApp |-> 0, instances |-> << >>]

\* window.emailDeals, by id.
emailDeals == << "deal1", "deal2", "deal3" >>

\* AppState and the email list before any EmailSimulation exists; `elements`
\* says whether the markup holds #email-list and #emailCount.
EmailMarkup(elements) ==
    [elements |-> elements, constructed |-> FALSE, container |-> FALSE,
     intervalId |-> FALSE, isRunning |-> FALSE, startPending |-> FALSE,
     pending |-> 0, currentEmailStep |-> 0, visibleEmails |-> << >>,
     count |-> 0, isTyping |-> FALSE]

\* The fields of DealCurationForm, in document order.
DealFields == << "email", "city", "investmentRange", "strategy" >>
\* The component after mount: the useState initial values, nothing focused,
\* no request in flight.  `last` is history: the latest event, the fields
\* its validation found invalid and the field firstErrorRef pointed at.
DealMounted ==
    [values |-> [f \in Range(DealFields) |-> ""],
     loading |-> FALSE, success |-> FALSE, error |-> "",
     fieldErrors |-> [f \in Range(DealFields) |-> ""],
     focus |-> "none", requests |-> 0,
     last |-> [kind |-> "mount", errors |-> {}, ref |-> "none"]]

\* The page with nothing open and no notification shown.
PageLoaded ==
    /\ notifications = << >>
    /\ windows = << >>
    /\ faq = FaqMarkup(0)
    /\ form = FormMarkup(TRUE, FALSE, TRUE)
    /\ menu = MenuMarkup
    /\ app = AppParsed("complete")
    /\ email = EmailMarkup(TRUE)
    /\ deal = DealMounted

WorkerInit ==
    /\ oldControls \in BOOLEAN
    /\ cacheNames = IF oldControls THEN << OLD_STATIC_CACHE, OLD_DYNAMIC_CACHE >> ELSE << >>
    /\ store = [n \in CacheNameSet |->
                  IF oldControls /\ n = OLD_STATIC_CACHE
                  THEN [u \in Range(STATIC_FILES) |-> Resp(u, InstallContent("old"), 200)]
                  ELSE EmptyCache]
    /\ phase = "parsed"
    /\ skipWaitingFlag = FALSE
    /\ install = [pc |-> "idle", promise |-> "pending", addAllFailed |-> FALSE]
    /\ activate = [pc |-> "idle", stale |-> {}, toDelete |-> {}, claimed |-> FALSE,
                   racing |-> FALSE]
    /\ h = [i \in Slots |-> Idle]
    /\ events = 0

Init == WorkerInit /\ PageLoaded

\* ---------------------------------------------------------------- install
\* The install event is dispatched: caches.open(STATIC_CACHE) is called.
InstallEvent ==
    /\ phase = "parsed"
    /\ phase' = "installing"
    /\ install' = [install EXCEPT !.pc = "open"]
    /\ UNCHANGED << pageVars, cacheNames, store, oldControls, skipWaitingFlag, activate, h, events >>

InstallOpen ==
    /\ install.pc = "open"
    /\ cacheNames' = OpenedNames(STATIC_CACHE)
    /\ install' = [install EXCEPT !.pc = "addAll"]
    /\ UNCHANGED << pageVars, store, phase, oldControls, skipWaitingFlag, activate, h, events >>

\* cache.addAll writes every entry or none.
AddAll(c, urls, g) == [u \in (DOMAIN c) \cup urls |-> IF u \in urls THEN Resp(u, g, 200) ELSE c[u]]

\* What the promise given to event.waitUntil settles to when cache.addAll
\* rejects: the chain ends in .catch(), whose callback returns undefined.
InstallPromiseOnFailure == "fulfilled"

\* The platform's rule for the end of the install event.
PhaseAfterInstall(promise) == IF promise = "rejected" THEN "redundant" ELSE "installed"

\* cache.addAll(STATIC_FILES) fulfils; .then(() => self.skipWaiting()).
InstallAddAllOk ==
    /\ install.pc = "addAll"
    /\ store' = [store EXCEPT ![STATIC_CACHE] = AddAll(@, Range(STATIC_FILES), InstallContent("new"))]
    /\ skipWaitingFlag' = TRUE
    /\ install' = [install EXCEPT !.pc = "done", !.promise = "fulfilled"]
    /\ phase' = PhaseAfterInstall("fulfilled")
    /\ UNCHANGED << pageVars, cacheNames, oldControls, activate, h, events >>

\* cache.addAll(STATIC_FILES) rejects (a fetch or a store failed); .catch logs.
InstallAddAllFail ==
    /\ install.pc = "addAll"
    /\ install' = [install EXCEPT !.pc = "done", !.promise = InstallPromiseOnFailure,
                                  !.addAllFailed = TRUE]
    /\ phase' = PhaseAfterInstall(InstallPromiseOnFailure)
    /\ UNCHANGED << pageVars, cacheNames, store, oldControls, skipWaitingFlag, activate, h, events >>

\* --------------------------------------------------------------- activate
\* The old version's pages all close.
OldClientsClose ==
    /\ oldControls
    /\ phase \in {"parsed", "installing", "installed"}
    /\ oldControls' = FALSE
    /\ UNCHANGED << pageVars, cacheNames, store, phase, skipWaitingFlag, install, activate, h, events >>

\* History: a handler of the old version has not returned or settled yet.
OldInFlight == \E i \in Slots : h[i].ver = "old" /\ h[i].pc \notin {"idle", "done"}

\* The platform activates the waiting worker; the activate event is
\* dispatched and caches.keys() is called.  The old version stops receiving
\* events; its handlers already in flight run on.
ActivateEvent ==
    /\ phase = "installed"
    /\ skipWaitingFlag \/ ~oldControls
    /\ phase' = "activating"
    /\ oldControls' = FALSE
    /\ activate' = [activate EXCEPT !.pc = "keys", !.racing = OldInFlight]
    /\ UNCHANGED << pageVars, cacheNames, store, skipWaitingFlag, install, h, events >>

\* Mutant: only static generations are recognised as stale.
IsStale_staticOnly(cacheName) == cacheName = OLD_STATIC_CACHE
\* cacheName !== STATIC_CACHE && cacheName !== DYNAMIC_CACHE
IsStale(cacheName) == cacheName # STATIC_CACHE /\ cacheName # DYNAMIC_CACHE

\* caches.keys() resolves; caches.delete is called for every stale name.
ActivateKeys ==
    /\ activate.pc = "keys"
    /\ activate' = [activate EXCEPT !.pc = "delete",
                                    !.stale = {n \in Range(cacheNames) : IsStale(n)},
                                    !.toDelete = {n \in Range(cacheNames) : IsStale(n)}]
    /\ UNCHANGED << pageVars, cacheNames, store, phase, oldControls, skipWaitingFlag, install, h, events >>

\* One caches.delete(cacheName) completes.  A handler that holds the deleted
\* Cache object keeps writing to it, out of the storage's reach.
ActivateDelete(n) ==
    /\ activate.pc = "delete"
    /\ n \in activate.toDelete
    /\ cacheNames' = RemoveName(n)
    /\ store' = [store EXCEPT ![n] = EmptyCache]
    /\ h' = [i \in Slots |-> IF h[i].pc = "put" /\ h[i].cache = n
                             THEN [h[i] EXCEPT !.orphan = TRUE] ELSE h[i]]
    /\ activate' = [activate EXCEPT !.toDelete = @ \ {n}]
    /\ UNCHANGED << pageVars, phase, oldControls, skipWaitingFlag, install, events >>

\* Mutant: clients.claim() does not wait for the deletions.
ActivateClaim_early ==
    /\ activate.pc = "delete"
    /\ activate' = [activate EXCEPT !.pc = "done", !.claimed = TRUE]
    /\ phase' = "activated"
    /\ UNCHANGED << pageVars, cacheNames, store, oldControls, skipWaitingFlag, install, h, events >>
\* Promise.all settled: self.clients.claim().
ActivateClaim ==
    /\ activate.pc = "delete"
    /\ activate.toDelete = {}
    /\ activate' = [activate EXCEPT !.pc = "done", !.claimed = TRUE]
    /\ phase' = "activated"
    /\ UNCHANGED << pageVars, cacheNames, store, oldControls, skipWaitingFlag, install, h, events >>

\* ------------------------------------------------------------ fetch event
\* url.origin.includes(...) for the three recognized CDN hosts.
IsCDN(origin) ==
    \/ Includes(origin, "cdn.tailwindcss.com")
    \/ Includes(origin, "fonts.googleapis.com")
    \/ Includes(origin, "cdnjs.cloudflare.com")

\* The handler the fetch listener passes to event.respondWith.
Route(url) ==
    IF OriginOf(url) = SelfOrigin THEN "same"
    ELSE IF IsCDN(OriginOf(url)) THEN "cdn"
    ELSE "ext"

FirstPc(kind) == IF kind = "cdn" THEN "cmatch" ELSE "fetch"

\* History: the ok network responses for `url` that new-version same-origin
\* handlers still on record have returned.
OkReturns(url) ==
    {h[j].result : j \in {k \in Slots : /\ h[k].kind = "same" /\ h[k].ver = "new"
                                         /\ h[k].url = url /\ ~h[k].failed
                                         /\ h[k].pc \in {"put", "done"}
                                         /\ Ok(h[k].result)}}
SeenAtStart(v, url) ==
    IF v = "new" /\ Cardinality(OkReturns(url)) = 1
    THEN CHOOSE r \in OkReturns(url) : TRUE
    ELSE Undefined

\* Mutant: requests of every method are intercepted.
Intercepted_always(m) == TRUE
\* if (request.method !== 'GET') return;
Intercepted(m) == m = "GET"

\* The fetch listener: a non-GET request returns before respondWith (kind
\* "pass": no handler runs), a GET request is routed to its handler.
FetchEvent(i, v, url, m) ==
    /\ Controls(v)
    /\ FirstFree(i)
    /\ IF ~Intercepted(m)
       THEN h' = [h EXCEPT ![i] = [Start(v, "pass", url, "done") EXCEPT !.method = m]]
       ELSE h' = [h EXCEPT ![i] =
                    [Start(v, Route(url), url, FirstPc(Route(url)))
                       EXCEPT !.seen = SeenAtStart(v, url), !.method = m]]
    /\ UNCHANGED << pageVars, cacheNames, store, phase, oldControls, skipWaitingFlag, install, activate >>

\* ---------------------------------------------- handleSameOriginRequest
\* Mutant: every network response goes on to the cache, ok or not.
SameFetchResolves_storeAll(i) ==
    /\ h[i].kind = "same" /\ h[i].pc = "fetch"
    /\ \E st \in {200, 404} :
         LET r == Resp(h[i].url, h[i].id, st) IN
         h' = [h EXCEPT ![i] = [@ EXCEPT !.net = @ + 1, !.resp = r,
                                         !.pc = "open", !.result = Pending]]
    /\ UNCHANGED << pageVars, cacheNames, store, phase, oldControls, skipWaitingFlag, install, activate, events >>
\* await fetch(request) resolves with a response (ok or not).
SameFetchResolves(i) ==
    /\ h[i].kind = "same" /\ h[i].pc = "fetch"
    /\ \E st \in {200, 404} :
         LET r == Resp(h[i].url, h[i].id, st) IN
         h' = [h EXCEPT ![i] = [@ EXCEPT !.net = @ + 1, !.resp = r,
                                         !.pc = IF Ok(r) THEN "open" ELSE "done",
                                         !.result = IF Ok(r) THEN Pending ELSE r]]
    /\ UNCHANGED << pageVars, cacheNames, store, phase, oldControls, skipWaitingFlag, install, activate, events >>

\* await fetch(request) rejects: control passes to the catch block.
SameFetchRejects(i) ==
    /\ h[i].kind = "same" /\ h[i].pc = "fetch"
    /\ h' = [h EXCEPT ![i] = [@ EXCEPT !.net = @ + 1, !.failed = TRUE, !.pc = "match"]]
    /\ UNCHANGED << pageVars, cacheNames, store, phase, oldControls, skipWaitingFlag, install, activate, events >>

\* await caches.open(DYNAMIC_CACHE) resolves; cache.put(...) is started and
\* not awaited; the network response is returned.
SameOpenPut(i) ==
    /\ h[i].kind = "same" /\ h[i].pc = "open"
    /\ cacheNames' = OpenedNames(DynamicCacheOf(h[i].ver))
    /\ h' = [j \in Slots |->
               IF j = i
               THEN [h[i] EXCEPT !.pc = "put", !.cache = DynamicCacheOf(h[i].ver),
                                 !.result = h[i].resp]
               ELSE IF /\ h[j].kind = "same" /\ h[j].url = h[i].url
                       /\ h[j].pc # "done" /\ h[i].ver = "new"
                    THEN [h[j] EXCEPT !.seen = Undefined]
                    ELSE h[j]]
    /\ UNCHANGED << pageVars, store, phase, oldControls, skipWaitingFlag, install, activate, events >>

\* The cache.put started by a handler completes.
PutCompletes(i) ==
    /\ h[i].pc = "put"
    /\ store' = IF h[i].orphan THEN store
                ELSE [store EXCEPT ![h[i].cache] = PutEntry(@, h[i].url, h[i].resp)]
    /\ h' = [h EXCEPT ![i] = [@ EXCEPT !.pc = "done"]]
    /\ UNCHANGED << pageVars, cacheNames, phase, oldControls, skipWaitingFlag, install, activate, events >>

\* const cachedResponse = await caches.match(request)
SameOriginCacheLookup(url) == CachesMatch(url)
\* return caches.match('/offline.html')
OfflinePageLookup == CachesMatch(OFFLINE_URL)

SameMatch(i) ==
    /\ h[i].kind = "same" /\ h[i].pc = "match"
    /\ LET c == SameOriginCacheLookup(h[i].url) IN
       h' = [h EXCEPT ![i] = [@ EXCEPT !.cached = c,
                                       !.pc = IF c # Undefined THEN "done" ELSE "offline",
                                       !.result = IF c # Undefined THEN c ELSE Pending]]
    /\ UNCHANGED << pageVars, cacheNames, store, phase, oldControls, skipWaitingFlag, install, activate, events >>

SameOffline(i) ==
    /\ h[i].kind = "same" /\ h[i].pc = "offline"
    /\ h' = [h EXCEPT ![i] = [@ EXCEPT !.pc = "done", !.result = OfflinePageLookup]]
    /\ UNCHANGED << pageVars, cacheNames, store, phase, oldControls, skipWaitingFlag, install, activate, events >>

\* ------------------------------------------------------ handleCDNRequest
\* Mutant: the cache lookup is skipped (network-first for CDN requests).
CdnCacheLookup_skipped(url) == Undefined
\* const cachedResponse = await caches.match(request)
CdnCacheLookup(url) == CachesMatch(url)

CdnMatch(i) ==
    /\ h[i].kind = "cdn" /\ h[i].pc = "cmatch"
    /\ LET c == CdnCacheLookup(h[i].url)
           s == StaticCacheOf(h[i].ver) IN
       h' = [h EXCEPT ![i] = [@ EXCEPT !.cached = c,
                                       !.own = IF Has(s, h[i].url) THEN store[s][h[i].url] ELSE Undefined,
                                       !.pc = IF c # Undefined THEN "done" ELSE "fetch",
                                       !.result = IF c # Undefined THEN c ELSE Pending]]
    /\ UNCHANGED << pageVars, cacheNames, store, phase, oldControls, skipWaitingFlag, install, activate, events >>

\* Mutant: every network response goes on to the cache, ok or not.
CdnFetchResolves_storeAll(i) ==
    /\ h[i].kind = "cdn" /\ h[i].pc = "fetch"
    /\ \E st \in {200, 404} :
         LET r == Resp(h[i].url, h[i].id, st) IN
         h' = [h EXCEPT ![i] = [@ EXCEPT !.net = @ + 1, !.resp = r,
                                         !.pc = "open", !.result = Pending]]
    /\ UNCHANGED << pageVars, cacheNames, store, phase, oldControls, skipWaitingFlag, install, activate, events >>
CdnFetchResolves(i) ==
    /\ h[i].kind = "cdn" /\ h[i].pc = "fetch"
    /\ \E st \in {200, 404} :
         LET r == Resp(h[i].url, h[i].id, st) IN
         h' = [h EXCEPT ![i] = [@ EXCEPT !.net = @ + 1, !.resp = r,
                                         !.pc = IF Ok(r) THEN "open" ELSE "done",
                                         !.result = IF Ok(r) THEN Pending ELSE r]]
    /\ UNCHANGED << pageVars, cacheNames, store, phase, oldControls, skipWaitingFlag, install, activate, events >>

\* Mutant: the catch block always rethrows.
CdnFailureResult_rethrow(url) == Rejected
\* The catch block: a fallback stylesheet for Tailwind, otherwise rethrow.
CdnFailureResult(url) ==
    IF Includes(url, "tailwindcss.com") THEN TailwindFallback ELSE Rejected

CdnFetchRejects(i) ==
    /\ h[i].kind = "cdn" /\ h[i].pc = "fetch"
    /\ h' = [h EXCEPT ![i] = [@ EXCEPT !.net = @ + 1, !.failed = TRUE, !.pc = "done",
                                         !.result = CdnFailureResult(h[i].url)]]
    /\ UNCHANGED << pageVars, cacheNames, store, phase, oldControls, skipWaitingFlag, install, activate, events >>

\* await caches.open(STATIC_CACHE); cache.put(...) not awaited; return.
CdnOpenPut(i) ==
    /\ h[i].kind = "cdn" /\ h[i].pc = "open"
    /\ cacheNames' = OpenedNames(StaticCacheOf(h[i].ver))
    /\ h' = [h EXCEPT ![i] = [@ EXCEPT !.pc = "put", !.cache = StaticCacheOf(h[i].ver),
                                         !.result = h[i].resp]]
    /\ UNCHANGED << pageVars, store, phase, oldControls, skipWaitingFlag, install, activate, events >>

\* ------------------------------------------------- handleExternalRequest
ExtFetchResolves(i) ==
    /\ h[i].kind = "ext" /\ h[i].pc = "fetch"
    /\ \E st \in {200, 404} :
         LET r == Resp(h[i].url, h[i].id, st) IN
         h' = [h EXCEPT ![i] = [@ EXCEPT !.net = @ + 1, !.resp = r, !.pc = "done", !.result = r]]
    /\ UNCHANGED << pageVars, cacheNames, store, phase, oldControls, skipWaitingFlag, install, activate, events >>

\* Mutant: the catch block rethrows.
ExtFailureResult_rethrow == Rejected
\* The catch block: return new Response('Offline', {status: 503, ...}).
ExtFailureResult == OfflineResponse

ExtFetchRejects(i) ==
    /\ h[i].kind = "ext" /\ h[i].pc = "fetch"
    /\ h' = [h EXCEPT ![i] = [@ EXCEPT !.net = @ + 1, !.failed = TRUE, !.pc = "done",
                                         !.result = ExtFailureResult]]
    /\ UNCHANGED << pageVars, cacheNames, store, phase, oldControls, skipWaitingFlag, install, activate, events >>

\* ------------------------------------------------------- background sync
SyncTags == {"background-sync", "other-sync"}

\* The page leaves a submission for retry: one entry, last write wins.
StoreFormData ==
    /\ phase = "activated"
    /\ cacheNames' = OpenedNames(DYNAMIC_CACHE)
    /\ store' = [store EXCEPT ![DYNAMIC_CACHE] =
                   PutEntry(@, FORM_DATA_URL, Resp(FORM_DATA_URL, events + 1, 200))]
    /\ UNCHANGED << pageVars, phase, oldControls, skipWaitingFlag, install, activate, h >>

\* The sync listener: only the tag 'background-sync' starts doBackgroundSync.
SyncEvent(i, tag) ==
    /\ Controls("new")
    /\ FirstFree(i)
    /\ IF tag = "background-sync"
       THEN h' = [h EXCEPT ![i] = Start("new", "sync", FORM_DATA_URL, "g_open")]
       ELSE h' = [h EXCEPT ![i] = Start("new", "nosync", "", "done")]
    /\ UNCHANGED << pageVars, cacheNames, store, phase, oldControls, skipWaitingFlag, install, activate >>

\* getStoredFormData: const cache = await caches.open(DYNAMIC_CACHE)
SyncGetOpen(i) ==
    /\ h[i].kind = "sync" /\ h[i].pc = "g_open"
    /\ cacheNames' = OpenedNames(DYNAMIC_CACHE)
    /\ h' = [h EXCEPT ![i] = [@ EXCEPT !.pc = "g_match"]]
    /\ UNCHANGED << pageVars, store, phase, oldControls, skipWaitingFlag, install, activate, events >>

\* getStoredFormData: await cache.match('/form-data'), null when absent.
StoredFormData ==
    IF Has(DYNAMIC_CACHE, FORM_DATA_URL) THEN store[DYNAMIC_CACHE][FORM_DATA_URL] ELSE Undefined

\* if (formData) { ... } : without form data doBackgroundSync resolves.
SyncGetMatch(i) ==
    /\ h[i].kind = "sync" /\ h[i].pc = "g_match"
    /\ LET f == StoredFormData IN
       h' = [h EXCEPT ![i] = [@ EXCEPT !.cached = f,
                                       !.pc = IF f # Undefined THEN "post" ELSE "done",
                                       !.result = IF f # Undefined THEN Pending ELSE Resolved]]
    /\ UNCHANGED << pageVars, cacheNames, store, phase, oldControls, skipWaitingFlag, install, activate, events >>

\* Mutant: the stored data is cleared whatever the response.
ClearsAfter_always(response) == TRUE
\* Mutant: the stored data is never cleared.
ClearsAfter_never(response) == FALSE
\* if (response.ok) await clearStoredFormData()
ClearsAfter(response) == Ok(response)

\* await fetch('/api/signup', {method: 'POST', ...}) resolves.
SyncPostResolves(i) ==
    /\ h[i].kind = "sync" /\ h[i].pc = "post"
    /\ \E st \in {200, 500} :
         LET r == Resp(SIGNUP_URL, h[i].cached.gen, st) IN
         h' = [h EXCEPT ![i] = [@ EXCEPT !.net = @ + 1, !.resp = r,
                                         !.pc = IF ClearsAfter(r) THEN "c_open" ELSE "done",
                                         !.result = IF ClearsAfter(r) THEN Pending ELSE Resolved]]
    /\ UNCHANGED << pageVars, cacheNames, store, phase, oldControls, skipWaitingFlag, install, activate, events >>

\* Mutant: the catch block rethrows.
SyncResultOnError_rethrow == Rejected
\* What doBackgroundSync settles to when the POST rejects: the catch block
\* logs and returns.
SyncResultOnError == Resolved

SyncPostRejects(i) ==
    /\ h[i].kind = "sync" /\ h[i].pc = "post"
    /\ h' = [h EXCEPT ![i] = [@ EXCEPT !.net = @ + 1, !.failed = TRUE, !.pc = "done",
                                         !.result = SyncResultOnError]]
    /\ UNCHANGED << pageVars, cacheNames, store, phase, oldControls, skipWaitingFlag, install, activate, events >>

\* clearStoredFormData: const cache = await caches.open(DYNAMIC_CACHE)
SyncClearOpen(i) ==
    /\ h[i].kind = "sync" /\ h[i].pc = "c_open"
    /\ cacheNames' = OpenedNames(DYNAMIC_CACHE)
    /\ h' = [h EXCEPT ![i] = [@ EXCEPT !.pc = "c_delete"]]
    /\ UNCHANGED << pageVars, store, phase, oldControls, skipWaitingFlag, install, activate, events >>

\* clearStoredFormData: await cache.delete('/form-data')
SyncClearDelete(i) ==
    /\ h[i].kind = "sync" /\ h[i].pc = "c_delete"
    /\ store' = [store EXCEPT ![DYNAMIC_CACHE] = DeleteEntry(@, FORM_DATA_URL)]
    /\ h' = [h EXCEPT ![i] = [@ EXCEPT !.pc = "done", !.result = Resolved]]
    /\ UNCHANGED << pageVars, cacheNames, phase, oldControls, skipWaitingFlag, install, activate, events >>

\* ---------------------------------------------------------- message event
\* event.data.type; "" stands for a message with no data or no type.
MessageTypes == {"SKIP_WAITING", "CACHE_URLS", "PING", ""}
CacheUrlsInputs == {{OFFLINE_URL}}

\* The message listener of the new worker.
MessageEvent(i, type, urls) ==
    /\ phase \in {"installing", "installed", "activating", "activated"}
    /\ FirstFree(i)
    /\ skipWaitingFlag' = IF type = "SKIP_WAITING" THEN TRUE ELSE skipWaitingFlag
    /\ IF type = "CACHE_URLS"
       THEN h' = [h EXCEPT ![i] = [Start("new", "msg", "", "m_open") EXCEPT !.urls = urls]]
       ELSE h' = [h EXCEPT ![i] = Start("new", IF type = "SKIP_WAITING" THEN "skip" ELSE "nomsg", "", "done")]
    /\ UNCHANGED << pageVars, cacheNames, store, phase, oldControls, install, activate >>

\* caches.open(DYNAMIC_CACHE) resolves; cache.addAll(event.data.urls) is called.
MessageOpen(i) ==
    /\ h[i].kind = "msg" /\ h[i].pc = "m_open"
    /\ cacheNames' = OpenedNames(DYNAMIC_CACHE)
    /\ h' = [h EXCEPT ![i] = [@ EXCEPT !.pc = "m_addAll"]]
    /\ UNCHANGED << pageVars, store, phase, oldControls, skipWaitingFlag, install, activate, events >>

\* Mutant: the URLs are added to the static generation.
MessageAddAllOk_static(i) ==
    /\ h[i].kind = "msg" /\ h[i].pc = "m_addAll"
    /\ store' = [store EXCEPT ![STATIC_CACHE] = AddAll(@, h[i].urls, h[i].id)]
    /\ h' = [h EXCEPT ![i] = [@ EXCEPT !.pc = "done", !.result = Resolved]]
    /\ UNCHANGED << pageVars, cacheNames, phase, oldControls, skipWaitingFlag, install, activate, events >>
\* cache.addAll(event.data.urls) fulfils.
MessageAddAllOk(i) ==
    /\ h[i].kind = "msg" /\ h[i].pc = "m_addAll"
    /\ store' = [store EXCEPT ![DYNAMIC_CACHE] = AddAll(@, h[i].urls, h[i].id)]
    /\ h' = [h EXCEPT ![i] = [@ EXCEPT !.pc = "done", !.result = Resolved]]
    /\ UNCHANGED << pageVars, cacheNames, phase, oldControls, skipWaitingFlag, install, activate, events >>

MessageAddAllFail(i) ==
    /\ h[i].kind = "msg" /\ h[i].pc = "m_addAll"
    /\ h' = [h EXCEPT ![i] = [@ EXCEPT !.pc = "done", !.failed = TRUE, !.result = Rejected]]
    /\ UNCHANGED << pageVars, cacheNames, store, phase, oldControls, skipWaitingFlag, install, activate, events >>

\* ------------------------------------------------------ push notifications
\* Notifications shown in one run.
MaxNotifications == 3
\* event.data: absent, or a text.
PushData == {"", "3 new deals in Austin"}
\* What the user clicks: one of the two action buttons ('explore' is titled
\* "View Deal", 'close' is titled "Close"), or the notification's body, for
\* which event.action is the empty string.
ClickActions == {"explore", "close", ""}

\* The push listener: showNotification('PropGrid Deal Alert', options).
PushEvent(data) ==
    /\ Controls("new")
    /\ Len(notifications) < MaxNotifications
    /\ notifications' = Append(notifications,
            [body |-> IF data # "" THEN data ELSE "New real estate deal alert!",
             closed |-> FALSE, action |-> "none"])
    /\ UNCHANGED << swVars, uiVars, windows, faq, form, menu >>

\* if (event.action === 'explore') event.waitUntil(clients.openWindow('/'))
OpensWindow(action) == action = "explore"

\* The notificationclick listener, for a click on notification n.
NotificationClick(n, action) ==
    /\ n \in DOMAIN notifications
    /\ ~notifications[n].closed
    /\ notifications' = [notifications EXCEPT ![n] = [@ EXCEPT !.closed = TRUE, !.action = action]]
    /\ windows' = IF OpensWindow(action) THEN Append(windows, "/") ELSE windows
    /\ UNCHANGED << swVars, uiVars, faq, form, menu >>

\* ------------------------------------------------------------ mobile menu
\* Focus-trap handlers attached to the menu at once.
MaxTraps == 2
\* window.innerWidth < 768
MobileBreakpoint == 768
Widths == {MobileBreakpoint - 1, MobileBreakpoint}
Keys == {"Escape", "Tab"}
\* What a click lands on: the menu button, the close button and a link in
\* the menu, a link elsewhere on the page, or the page outside the menu.
ClickTargets == {"menu-btn", "menu-close", "menu-link", "page-link", "page"}
\* this.mobileMenu.contains(e.target)
InMenu(t) == t \in {"menu-close", "menu-link"}
\* a[href^="#"]
IsAnchorLink(t) == t \in {"menu-link", "page-link"}

\* this.mobileMenu.classList.contains('translate-x-0')
IsOpen(m) == "translate-x-0" \in m.classes

\* setupFocusTrap: a keydown handler is attached to the menu and kept in
\* _focusTrapHandler; the menu's first element is focused.
setupFocusTrap(m) == [m EXCEPT !.traps = @ + 1, !.trapRef = TRUE, !.focus = "menu"]
\* removeFocusTrap: the handler kept in _focusTrapHandler is detached.
removeFocusTrap(m) ==
    IF m.trapRef THEN [m EXCEPT !.traps = @ - 1, !.trapRef = FALSE] ELSE m

\* classList.remove('translate-x-0'); classList.add('translate-x-full');
\* setAttribute('aria-expanded', 'false'); document.body.style.overflow = ''
Slide(m, open) ==
    [m EXCEPT !.classes = IF open
                          THEN (@ \ {"translate-x-full"}) \cup {"translate-x-0"}
                          ELSE (@ \ {"translate-x-0"}) \cup {"translate-x-full"},
              !.expanded = IF open THEN "true" ELSE "false",
              !.overflow = IF open THEN "hidden" ELSE ""]

toggleMenu(m) ==
    IF IsOpen(m) THEN removeFocusTrap(Slide(m, FALSE)) ELSE setupFocusTrap(Slide(m, TRUE))

\* Mutant: Escape toggles the menu whether it is open or not.
escapeHandler_always(m, key) == IF key = "Escape" THEN toggleMenu(m) ELSE m
escapeHandler(m, key) == IF key = "Escape" /\ IsOpen(m) THEN toggleMenu(m) ELSE m

outsideClickHandler(m, t) ==
    IF ~InMenu(t) /\ t # "menu-btn" /\ IsOpen(m) THEN toggleMenu(m) ELSE m

\* The click listener of the a[href^="#"] links: scroll, close the menu.
smoothScrollClick(m) == IF IsOpen(m) THEN Slide(m, FALSE) ELSE m

\* PropGridApp.handleResize
handleResize(m, w) ==
    IF ~(w < MobileBreakpoint) /\ IsOpen(m) THEN Slide(m, FALSE) ELSE m

\* A click: the focus moves to its target, the target's listeners run, then
\* the document's.
ClickOn(m, t) ==
    LET focused == [m EXCEPT !.focus = IF InMenu(t) THEN "menu" ELSE "page"]
        atTarget == IF t \in {"menu-btn", "menu-close"} THEN toggleMenu(focused)
                    ELSE IF IsAnchorLink(t) THEN smoothScrollClick(focused)
                    ELSE focused
    IN outsideClickHandler(atTarget, t)

MenuClick(t) ==
    /\ ClickOn(menu, t).traps <= MaxTraps
    /\ menu' = ClickOn(menu, t)
    /\ UNCHANGED << swVars, uiVars, notifications, windows, faq, form >>

KeyDown(key) ==
    /\ menu' = escapeHandler(menu, key)
    /\ UNCHANGED << swVars, uiVars, notifications, windows, faq, form >>

Resize(w) ==
    /\ menu' = handleResize(menu, w)
    /\ UNCHANGED << swVars, uiVars, notifications, windows, faq, form >>

\* ---------------------------------------------------------- FAQ accordion
\* Mutant: the other open items are left open.
toggleAccordion_keepOthers(f, k) ==
    IF f.expanded[k] = "true"
    THEN [f EXCEPT !.open[k] = FALSE, !.icon[k] = "rotate(0deg)", !.expanded[k] = "false"]
    ELSE [f EXCEPT !.open[k] = TRUE, !.icon[k] = "rotate(180deg)", !.expanded[k] = "true"]
toggleAccordion(f, k) ==
    IF f.expanded[k] = "true"
    THEN [f EXCEPT !.open[k] = FALSE, !.icon[k] = "rotate(0deg)", !.expanded[k] = "false"]
    ELSE LET openItems == {x \in Sections : f.open[x]} IN
         [open |-> [x \in Sections |-> x = k],
          icon |-> [x \in Sections |->
                      IF x = k THEN "rotate(180deg)"
                      ELSE IF x \in openItems THEN "rotate(0deg)" ELSE f.icon[x]],
          expanded |-> [x \in Sections |->
                      IF x = k THEN "true"
                      ELSE IF x \in openItems THEN "false" ELSE f.expanded[x]]]

\* A click on the button of section k.
FaqClick(k) ==
    /\ faq' = toggleAccordion(faq, k)
    /\ menu' = ClickOn(menu, "page")
    /\ UNCHANGED << swVars, uiVars, notifications, windows, form >>

\* -------------------------------------------------------- multi-step form
\* Math.round(n / d * 100)
RoundPercent(n, d) == (200 * n + d) \div (2 * d)

\* validateCurrentStep: whether the fields of the current step are valid;
\* the errors of the invalid ones are shown, those of the valid ones cleared.
validateCurrentStep(f) == f.valid[f.currentStep]
Validated(f) == [f EXCEPT !.errors[f.currentStep] = ~f.valid[f.currentStep]]

updateStepDisplay(f) ==
    [f EXCEPT !.stepHidden = [k \in Steps |-> k # f.currentStep],
              !.progress = RoundPercent(f.currentStep, totalSteps),
              !.prevHidden = (f.currentStep = 1),
              !.nextHidden = (f.currentStep = totalSteps),
              !.submitHidden = (f.currentStep # totalSteps)]

\* Mutant: the step is left without validation.
nextStep_unvalidated(f) ==
    IF f.currentStep < totalSteps
    THEN updateStepDisplay([f EXCEPT !.currentStep = @ + 1])
    ELSE f
nextStep(f) ==
    IF ~validateCurrentStep(f) THEN Validated(f)
    ELSE IF f.currentStep < totalSteps
         THEN updateStepDisplay([Validated(f) EXCEPT !.currentStep = @ + 1])
         ELSE Validated(f)

previousStep(f) ==
    IF f.currentStep > 1 THEN updateStepDisplay([f EXCEPT !.currentStep = @ - 1]) ELSE f

\* A click on the next button.
NextClick ==
    /\ ~form.success
    /\ form' = nextStep(form)
    /\ menu' = ClickOn(menu, "page")
    /\ UNCHANGED << swVars, uiVars, notifications, windows, faq >>

\* A click on the previous button.
PrevClick ==
    /\ ~form.success
    /\ form' = previousStep(form)
    /\ menu' = ClickOn(menu, "page")
    /\ UNCHANGED << swVars, uiVars, notifications, windows, faq >>

\* The user fills in the fields of the displayed step, validly or not; the
\* input listener clears the errors shown for them.
EditFields(ok) ==
    /\ ~form.success
    /\ form' = [form EXCEPT !.valid[form.currentStep] = ok, !.errors[form.currentStep] = FALSE]
    /\ UNCHANGED << swVars, uiVars, notifications, windows, faq, menu >>

\* How a submit event comes about: a click on the submit button, or Enter
\* in a field of the displayed step (implicit submission).
SubmitWays == {"button", "enter"}

\* handleFormSubmission up to its await: the displayed step is validated,
\* the data is collected, the submit button is disabled and the simulated
\* API call is started.  `submitted` is history: the step displayed and
\* whether every step was valid when the call was started.
handleFormSubmission(f) ==
    IF ~validateCurrentStep(f) THEN Validated(f)
    ELSE [Validated(f) EXCEPT !.disabled = TRUE, !.submitting = @ + 1,
                              !.submitted = [step |-> f.currentStep,
                                             allValid |-> \A k \in Steps : f.valid[k]]]

\* showSuccessState, then the finally block: the form's container is
\* replaced by the welcome message, the button is enabled again.
showSuccessState(f) == [f EXCEPT !.success = TRUE, !.disabled = FALSE, !.submitting = @ - 1]

\* The form's submit listener.  A hidden button cannot be clicked, and a
\* disabled submit button blocks both ways.
SubmitEvent(way) ==
    /\ ~form.success /\ ~form.disabled
    /\ way = "button" => ~form.submitHidden
    /\ form' = handleFormSubmission(form)
    /\ menu' = IF way = "button" THEN ClickOn(menu, "page") ELSE menu
    /\ UNCHANGED << swVars, uiVars, notifications, windows, faq >>

\* The 2-second simulated API call resolves.
SubmitCompletes ==
    /\ form.submitting > 0 /\ ~form.success
    /\ form' = showSuccessState(form)
    /\ UNCHANGED << swVars, uiVars, notifications, windows, faq, menu >>

\* -------------------------------------------------------- email simulation
\* An instance that has not been destroyed exists.
Live(a) == \E k \in DOMAIN a.instances : ~a.instances[k].isDestroyed

\* Delayed add callbacks scheduled and not yet run, at most.
MaxPending == 2

\* startSimulation: the interval kept in intervalId is cleared first; a
\* running simulation returns; otherwise a new interval is started.
startSimulation(e) ==
    LET cleared == [e EXCEPT !.intervalId = FALSE]
    IN IF cleared.isRunning THEN cleared
       ELSE IF ~cleared.container THEN cleared
       ELSE [cleared EXCEPT !.isRunning = TRUE, !.intervalId = TRUE]

stopSimulation(e) == [e EXCEPT !.intervalId = FALSE, !.isRunning = FALSE]

\* Mutant: a step past the end pushes the last deal again.
addEmail_unchecked(e, k) ==
    IF ~e.container THEN e
    ELSE [e EXCEPT !.visibleEmails =
                      Append(@, emailDeals[IF k >= Len(emailDeals) THEN Len(emailDeals) ELSE k + 1]),
                   !.count = Len(e.visibleEmails) + 1]
\* addEmail(emailDeals[k]) with k counted from 0: nothing for a deal past
\* the end or without a container, else push and updateEmailCount.
addEmail(e, k) ==
    IF k >= Len(emailDeals) \/ ~e.container THEN e
    ELSE [e EXCEPT !.visibleEmails = Append(@, emailDeals[k + 1]),
                   !.count = Len(e.visibleEmails) + 1]

\* resetEmails: the list and the step are cleared, the count is updated.
resetEmails(e) ==
    [e EXCEPT !.visibleEmails = << >>, !.currentEmailStep = 0,
              !.count = IF e.container THEN 0 ELSE @]

\* new EmailSimulation(): without the elements the constructor returns;
\* with them init() resets AppState and schedules the delayed start.
NewEmailSimulation(e) ==
    IF ~e.elements
    THEN [e EXCEPT !.constructed = TRUE, !.container = FALSE,
                   !.intervalId = FALSE, !.isRunning = FALSE]
    ELSE [e EXCEPT !.constructed = TRUE, !.container = TRUE,
                   !.intervalId = FALSE, !.isRunning = FALSE,
                   !.currentEmailStep = 0, !.visibleEmails = << >>,
                   !.startPending = TRUE]

\* EmailSimulation.destroy
destroyEmail(e) == [stopSimulation(e) EXCEPT !.container = FALSE]

\* The constructor's setTimeout(() => this.startSimulation(), 2000) fires.
DelayedStart ==
    /\ email.startPending
    /\ email' = startSimulation([email EXCEPT !.startPending = FALSE])
    /\ UNCHANGED << swVars, notifications, windows, faq, form, menu, app, deal >>

\* The interval callback: a delayed add is scheduled, or the simulation
\* stops once every deal has been stepped over.
IntervalTick ==
    /\ email.intervalId
    /\ email.currentEmailStep < Len(emailDeals) => email.pending < MaxPending
    /\ email' = IF email.currentEmailStep < Len(emailDeals)
                THEN [email EXCEPT !.isTyping = TRUE, !.pending = @ + 1]
                ELSE stopSimulation(email)
    /\ UNCHANGED << swVars, notifications, windows, faq, form, menu, app, deal >>

\* The delayed callback of a tick: addEmail, typing off, the step advances.
AddCallback ==
    /\ email.pending > 0
    /\ email' = [addEmail(email, email.currentEmailStep) EXCEPT
                    !.isTyping = FALSE, !.currentEmailStep = @ + 1, !.pending = @ - 1]
    /\ UNCHANGED << swVars, notifications, windows, faq, form, menu, app, deal >>

\* resetEmails() called on the component that the app holds.
ResetEmails ==
    /\ Live(app) /\ email.constructed
    /\ email' = resetEmails(email)
    /\ UNCHANGED << swVars, notifications, windows, faq, form, menu, app, deal >>

\* ---------------------------------------------------------- app bootstrap
\* Mutant: initializeApp without its appInitialized guard.
initializeApp_unguarded(a) ==
    [a EXCEPT !.instances = Append(@, [isInitialized |-> TRUE, isDestroyed |-> FALSE]),
              !.windowApp = Len(a.instances) + 1, !.appInitialized = TRUE]
\* initializeApp: window.app = new PropGridApp(); appInitialized = true. The
\* constructor catches what init() throws, so it returns an instance.
initializeApp(a) ==
    IF a.appInitialized THEN a
    ELSE [a EXCEPT !.instances = Append(@, [isInitialized |-> TRUE, isDestroyed |-> FALSE]),
                   !.windowApp = Len(a.instances) + 1, !.appInitialized = TRUE]

\* if (!appInitialized && !window.app) initializeApp()
Fallback(a) == IF ~a.appInitialized /\ a.windowApp = 0 THEN initializeApp(a) ELSE a

\* The components of a freshly constructed instance: initializeComponents.
EmailAfter(a, a2) == IF Len(a2.instances) > Len(a.instances) THEN NewEmailSimulation(email) ELSE email

\* The page script runs: DOMContentLoaded listener or immediate call, then
\* the load listener and the emergency timeout are registered.
RunScript ==
    /\ app.pc = "script"
    /\ LET a1 == [app EXCEPT !.pc = "ran", !.loadListener = TRUE, !.timeout = TRUE]
           a2 == IF app.readyState = "loading" THEN [a1 EXCEPT !.listening = TRUE]
                 ELSE initializeApp(a1)
       IN app' = a2 /\ email' = EmailAfter(app, a2)
    /\ UNCHANGED << swVars, notifications, windows, faq, form, menu, deal >>

DOMContentLoaded ==
    /\ app.pc = "ran" /\ app.readyState = "loading"
    /\ LET a1 == [app EXCEPT !.readyState = "interactive", !.listening = FALSE]
           a2 == IF app.listening THEN initializeApp(a1) ELSE a1
       IN app' = a2 /\ email' = EmailAfter(app, a2)
    /\ UNCHANGED << swVars, notifications, windows, faq, form, menu, deal >>

\* The window's load event and its { once: true } fallback listener.
WindowLoad ==
    /\ app.pc = "ran" /\ app.readyState = "interactive"
    /\ LET a1 == [app EXCEPT !.readyState = "complete", !.loadListener = FALSE]
           a2 == IF app.loadListener THEN Fallback(a1) ELSE a1
       IN app' = a2 /\ email' = EmailAfter(app, a2)
    /\ UNCHANGED << swVars, notifications, windows, faq, form, menu, deal >>

\* The 2-second emergency timeout fires.
EmergencyTimeout ==
    /\ app.timeout
    /\ LET a2 == Fallback([app EXCEPT !.timeout = FALSE])
       IN app' = a2 /\ email' = EmailAfter(app, a2)
    /\ UNCHANGED << swVars, notifications, windows, faq, form, menu, deal >>

\* PropGridApp.destroy, for every instance's beforeunload listener: the
\* components are destroyed and forgotten.
BeforeUnload ==
    /\ Live(app)
    /\ app' = [app EXCEPT !.instances =
                  [k \in DOMAIN @ |-> [isInitialized |-> FALSE, isDestroyed |-> TRUE]]]
    /\ email' = destroyEmail(email)
    /\ UNCHANGED << swVars, notifications, windows, faq, form, menu, deal >>

\* visibilitychange: an instance that still holds its components pauses the
\* simulation when the page is hidden and resumes it when it is shown.
VisibilityChange ==
    /\ app' = [app EXCEPT !.hidden = ~@]
    /\ email' = IF ~Live(app) THEN email
                ELSE IF app'.hidden THEN stopSimulation(email)
                ELSE startSimulation(email)
    /\ UNCHANGED << swVars, notifications, windows, faq, form, menu, deal >>

\* ------------------------------------------------------ DealCurationForm
\* Webhook requests in flight at once, at most.
MaxRequests == 2

\* What the user can enter in a field.
DealInputs(f) ==
    IF f = "email" THEN {"", "investor", "investor@example.com"}
    ELSE IF f = "city" THEN {"", "Austin"}
    ELSE IF f = "investmentRange" THEN {"", "under-100k"}
    ELSE {"", "land"}

\* /^[^\s@]+@[^\s@]+\.[^\s@]+$/.test(email), on the e-mail inputs.
MatchesEmail(x) == x = "investor@example.com"

\* validate(): the message of every invalid field ("" for a valid one).
validate(v) ==
    [f \in Range(DealFields) |->
        IF f = "email"
        THEN IF v[f] = "" THEN "Email is required"
             ELSE IF ~MatchesEmail(v[f]) THEN "Please enter a valid email address"
             ELSE ""
        ELSE IF v[f] # "" THEN ""
        ELSE IF f = "city" THEN "City is required"
        ELSE IF f = "investmentRange" THEN "Investment range is required"
        ELSE "Strategy is required"]

\* Object.keys(errors)
ErrorKeys(errors) == {f \in Range(DealFields) : errors[f] # ""}

\* The element that holds firstErrorRef after a render with fieldErrors fe:
\* ref={fieldErrors.x && !fieldErrors.<earlier fields> ? firstErrorRef : null}
FirstErrorRef(fe) ==
    IF fe["email"] # "" THEN "email"
    ELSE IF fe["city"] # "" THEN "city"
    ELSE IF fe["investmentRange"] # "" THEN "investmentRange"
    ELSE IF fe["strategy"] # "" THEN "strategy"
    ELSE "none"

\* handleSubmit up to its await.  The set-state calls take effect with the
\* next render; firstErrorRef.current is the element of the last render.
handleSubmit(d) ==
    LET errors == validate(d.values)
        ref == FirstErrorRef(d.fieldErrors)
        cleared == [d EXCEPT !.error = "", !.success = FALSE, !.fieldErrors = errors]
    IN IF ErrorKeys(errors) # {}
       THEN [cleared EXCEPT !.focus = IF ref # "none" THEN ref ELSE @,
                            !.last = [kind |-> "invalid", errors |-> ErrorKeys(errors), ref |-> ref]]
       ELSE [cleared EXCEPT !.loading = TRUE, !.requests = @ + 1,
                            !.last = [kind |-> "sent", errors |-> {}, ref |-> ref]]

\* The rest of handleSubmit after the fetch settled: ok, or the catch block
\* (a non-ok response or a rejected fetch); finally setLoading(false).
afterFetch(d, ok) ==
    IF ok
    THEN [d EXCEPT !.success = TRUE,
                   !.values = [f \in Range(DealFields) |-> ""],
                   !.fieldErrors = [f \in Range(DealFields) |-> ""],
                   !.loading = FALSE, !.requests = @ - 1,
                   !.last = [kind |-> "ok", errors |-> {}, ref |-> "none"]]
    ELSE [d EXCEPT !.error = "Submission failed. Please try again.",
                   !.loading = FALSE, !.requests = @ - 1,
                   !.last = [kind |-> "failed", errors |-> {}, ref |-> "none"]]

\* How a submit event comes about: the submit button, Enter in a field, or
\* form.requestSubmit() from a script.  The button is disabled while loading,
\* which blocks the first two.
DealSubmitWays == {"button", "enter", "script"}

\* onChange of a field the user types in or selects from.
DealEdit(f, x) ==
    /\ deal' = [deal EXCEPT !.values[f] = x, !.focus = f,
                            !.last = [kind |-> "edit", errors |-> {}, ref |-> "none"]]
    /\ UNCHANGED << swVars, notifications, windows, faq, form, menu, app, email >>

\* onSubmit
DealSubmit(way) ==
    /\ way # "script" => ~deal.loading
    /\ handleSubmit(deal).requests <= MaxRequests
    /\ deal' = handleSubmit(deal)
    /\ UNCHANGED << swVars, notifications, windows, faq, form, menu, app, email >>

\* await fetch(webhookUrl, ...) settles for one of the requests in flight.
DealFetchSettles(ok) ==
    /\ deal.requests > 0
    /\ deal' = afterFetch(deal, ok)
    /\ UNCHANGED << swVars, notifications, windows, faq, form, menu, app, email >>

\* ------------------------------------------------------------------ next
\* The environment dispatches at most MaxEvents events.
Dispatch(A) == events < MaxEvents /\ A /\ events' = events + 1

Next ==
    \/ InstallEvent
    \/ InstallOpen
    \/ InstallAddAllOk
    \/ InstallAddAllFail
    \/ OldClientsClose
    \/ ActivateEvent
    \/ ActivateKeys
    \/ \E n \in CacheNameSet : ActivateDelete(n)
    \/ ActivateClaim
    \/ \E i \in Slots, v \in Versions, m \in Methods :
          \E url \in RequestUrlsOf(v) : Dispatch(FetchEvent(i, v, url, m))
    \/ \E i \in Slots : SameFetchResolves(i)
    \/ \E i \in Slots : SameFetchRejects(i)
    \/ \E i \in Slots : SameOpenPut(i)
    \/ \E i \in Slots : PutCompletes(i)
    \/ \E i \in Slots : SameMatch(i)
    \/ \E i \in Slots : SameOffline(i)
    \/ \E i \in Slots : CdnMatch(i)
    \/ \E i \in Slots : CdnFetchResolves(i)
    \/ \E i \in Slots : CdnFetchRejects(i)
    \/ \E i \in Slots : CdnOpenPut(i)
    \/ \E i \in Slots : ExtFetchResolves(i)
    \/ \E i \in Slots : ExtFetchRejects(i)
    \/ Dispatch(StoreFormData)
    \/ \E i \in Slots, tag \in SyncTags : Dispatch(SyncEvent(i, tag))
    \/ \E i \in Slots : SyncGetOpen(i)
    \/ \E i \in Slots : SyncGetMatch(i)
    \/ \E i \in Slots : SyncPostResolves(i)
    \/ \E i \in Slots : SyncPostRejects(i)
    \/ \E i \in Slots : SyncClearOpen(i)
    \/ \E i \in Slots : SyncClearDelete(i)
    \/ \E i \in Slots, type \in MessageTypes, urls \in CacheUrlsInputs :
          Dispatch(MessageEvent(i, type, urls))
    \/ \E i \in Slots : MessageOpen(i)
    \/ \E i \in Slots : MessageAddAllOk(i)
    \/ \E i \in Slots : MessageAddAllFail(i)

Spec == Init /\ [][Next]_vars

\* The sync path alone, with no bound on the number of sync signals.
NextSync ==
    \/ InstallEvent
    \/ InstallOpen
    \/ InstallAddAllOk
    \/ InstallAddAllFail
    \/ OldClientsClose
    \/ ActivateEvent
    \/ ActivateKeys
    \/ \E n \in CacheNameSet : ActivateDelete(n)
    \/ ActivateClaim
    \/ StoreFormData /\ UNCHANGED << pageVars, events >>
    \/ \E i \in Slots, tag \in SyncTags : SyncEvent(i, tag) /\ UNCHANGED << pageVars, events >>
    \/ \E i \in Slots : SyncGetOpen(i)
    \/ \E i \in Slots : SyncGetMatch(i)
    \/ \E i \in Slots : SyncPostResolves(i)
    \/ \E i \in Slots : SyncPostRejects(i)
    \/ \E i \in Slots : SyncClearOpen(i)
    \/ \E i \in Slots : SyncClearDelete(i)

\* A POST to /api/signup that resolves with an ok response.
SyncPostOk(i) == SyncPostResolves(i) /\ Ok(h'[i].resp)

\* Sync signals keep firing, every started handler keeps running, and the
\* POST succeeds eventually if it is tried again and again.
SyncFairness ==
    /\ SF_vars(\E i \in Slots : SyncEvent(i, "background-sync") /\ UNCHANGED << pageVars, events >>)
    /\ \A i \in Slots :
         /\ WF_vars(SyncGetOpen(i))
         /\ WF_vars(SyncGetMatch(i))
         /\ WF_vars(SyncPostResolves(i) \/ SyncPostRejects(i))
         /\ WF_vars(SyncClearOpen(i))
         /\ WF_vars(SyncClearDelete(i))
    /\ SF_vars(\E i \in Slots : SyncPostOk(i))

SpecSync == Init /\ [][NextSync]_vars /\ SyncFairness

\* The worker's life cycle and its notifications.
NextPush ==
    \/ InstallEvent
    \/ InstallOpen
    \/ InstallAddAllOk
    \/ InstallAddAllFail
    \/ OldClientsClose
    \/ ActivateEvent
    \/ ActivateKeys
    \/ \E n \in CacheNameSet : ActivateDelete(n)
    \/ ActivateClaim
    \/ \E data \in PushData : PushEvent(data)
    \/ \E n \in 1..MaxNotifications, action \in ClickActions : NotificationClick(n, action)

SpecPush == Init /\ [][NextPush]_vars

\* The page's components under the user's events.
InitPage ==
    /\ WorkerInit /\ ~oldControls
    /\ notifications = << >>
    /\ windows = << >>
    /\ faq \in {FaqMarkup(k) : k \in 0..NumSections}
    /\ form \in {FormMarkup(p, n, s) : p \in BOOLEAN, n \in BOOLEAN, s \in BOOLEAN}
    /\ menu = MenuMarkup
    /\ app = AppParsed("complete")
    /\ email = EmailMarkup(TRUE)
    /\ deal = DealMounted

NextPage ==
    \/ \E t \in ClickTargets : MenuClick(t)
    \/ \E key \in Keys : KeyDown(key)
    \/ \E w \in Widths : Resize(w)
    \/ \E k \in Sections : FaqClick(k)
    \/ NextClick
    \/ PrevClick
    \/ \E ok \in BOOLEAN : EditFields(ok)
    \/ \E way \in SubmitWays : SubmitEvent(way)
    \/ SubmitCompletes

SpecPage == InitPage /\ [][NextPage]_vars

\* The life cycle with the activate handler's promise chain running on:
\* caches.keys() resolves, every caches.delete completes, the chain goes on.
ActivationRuns ==
    /\ WF_vars(ActivateKeys)
    /\ WF_vars(\E n \in CacheNameSet : ActivateDelete(n))
    /\ WF_vars(ActivateClaim)

SpecActivation == Init /\ [][NextPush]_vars /\ ActivationRuns

\* The bootstrap and the email simulation of one page load.
InitApp ==
    /\ WorkerInit /\ ~oldControls
    /\ notifications = << >>
    /\ windows = << >>
    /\ faq = FaqMarkup(0)
    /\ form = FormMarkup(TRUE, FALSE, TRUE)
    /\ menu = MenuMarkup
    /\ app \in {AppParsed(rs) : rs \in {"loading", "interactive", "complete"}}
    /\ email \in {EmailMarkup(el) : el \in BOOLEAN}
    /\ deal = DealMounted

NextApp ==
    \/ RunScript
    \/ DOMContentLoaded
    \/ WindowLoad
    \/ EmergencyTimeout
    \/ BeforeUnload
    \/ VisibilityChange
    \/ DelayedStart
    \/ IntervalTick
    \/ AddCallback
    \/ ResetEmails

SpecApp == InitApp /\ [][NextApp]_vars

\* The same page with its timers firing: the script runs, the document
\* finishes loading, and a timer that stays due fires.
NextTimers ==
    \/ RunScript
    \/ DOMContentLoaded
    \/ WindowLoad
    \/ EmergencyTimeout
    \/ BeforeUnload
    \/ VisibilityChange
    \/ DelayedStart
    \/ IntervalTick
    \/ AddCallback

TimersFire ==
    /\ WF_vars(RunScript)
    /\ WF_vars(DOMContentLoaded)
    /\ WF_vars(WindowLoad)
    /\ WF_vars(EmergencyTimeout)
    /\ WF_vars(DelayedStart)
    /\ WF_vars(IntervalTick)
    /\ WF_vars(AddCallback)

SpecTimers == InitApp /\ [][NextTimers]_vars /\ TimersFire

\* The DealCurationForm component, mounted.
InitDeal == Init /\ ~oldControls

NextDeal ==
    \/ \E f \in Range(DealFields) : \E x \in DealInputs(f) : DealEdit(f, x)
    \/ \E way \in DealSubmitWays : DealSubmit(way)
    \/ \E ok \in BOOLEAN : DealFetchSettles(ok)

SpecDeal == InitDeal /\ [][NextDeal]_vars

\* ================================================================ claims
FormDataStored == Has(DYNAMIC_CACHE, FORM_DATA_URL)
Installed == phase \in {"installed", "activating", "activated"}

\* C1: if cache.addAll(STATIC_FILES) fails during install, the promise given
\* to event.waitUntil rejects and the new version never gets installed or
\* activated.
C1_InstallFailsOnAddAllFailure ==
    install.addAllFailed =>
        /\ install.promise = "rejected"
        /\ ~Installed

\* C2: a same-origin GET whose network fetch fails and whose URL no cache
\* holds is answered with the offline document, in every cache state
\* reachable after an install that stored the manifest.
C2_OfflineDocument ==
    \A i \in Slots :
        ( /\ ~install.addAllFailed
          /\ h[i].kind = "same" /\ h[i].ver = "new" /\ h[i].pc = "done"
          /\ h[i].failed /\ h[i].cached = Undefined )
        => (h[i].result.t = "response" /\ h[i].result.url = OFFLINE_URL)

\* C3: a same-origin GET that fails on the network after the same URL was
\* fetched with an ok response returns the response of that earlier fetch.
C3_RoundTrip ==
    \A i \in Slots :
        ( /\ h[i].kind = "same" /\ h[i].ver = "new" /\ h[i].pc = "done"
          /\ h[i].failed /\ h[i].seen # Undefined )
        => h[i].result = h[i].seen

C5_ManifestCached ==
    Installed => \A u \in Range(STATIC_FILES) : Has(STATIC_CACHE, u)

\* C6: a CDN handler that finds its URL in the static generation at its cache
\* lookup returns that entry and never fetches from the network.
C6_CacheFirst ==
    \A i \in Slots :
        (h[i].kind = "cdn" /\ h[i].pc # "cmatch" /\ h[i].own # Undefined)
        => (h[i].pc = "done" /\ h[i].net = 0 /\ h[i].result = h[i].own)
C6_Witness ==
    \E i \in Slots :
        /\ h[i].kind = "cdn" /\ h[i].pc = "done" /\ h[i].own # Undefined
        /\ h[i].net = 0 /\ h[i].result = h[i].own

\* C7: a doBackgroundSync run whose POST got an ok response ends with the
\* /form-data entry deleted, and the entry disappears from the dynamic
\* generation only in the clearing step of such a run.
C7_DeletedOnlyOnSuccess ==
    [][ /\ \A i \in Slots :
             ( /\ h[i].kind = "sync" /\ h[i].pc # "done"
               /\ h'[i].kind = "sync" /\ h'[i].pc = "done" /\ Ok(h'[i].resp) )
             => ~FormDataStored'
        /\ (FormDataStored /\ ~FormDataStored')
             => \E i \in Slots :
                  /\ h[i].kind = "sync" /\ h[i].pc = "c_delete"
                  /\ h[i].cached # Undefined /\ Ok(h[i].resp)
                  /\ h'[i].pc = "done"
      ]_vars
C7_Witness ==
    \E i \in Slots :
        /\ h[i].kind = "sync" /\ h[i].pc = "done"
        /\ h[i].cached # Undefined /\ Ok(h[i].resp)
        /\ ~FormDataStored

\* The POST of a doBackgroundSync run did not succeed.
PostFailed(r) == r.kind = "sync" /\ (r.failed \/ (r.resp # Undefined /\ ~Ok(r.resp)))

\* C8: no step of a doBackgroundSync run whose POST was answered not-ok or
\* rejected changes any cache, and the run resolves (never rejects).
C8_FailureKeepsEntry ==
    [][ \A i \in Slots :
          (h[i].kind = "sync" /\ h'[i] # h[i] /\ PostFailed(h'[i]))
          => (store' = store /\ h'[i].result # Rejected)
      ]_vars
C8_Witness ==
    \E i \in Slots :
        /\ PostFailed(h[i]) /\ h[i].pc = "done"
        /\ h[i].result = Resolved
        /\ FormDataStored
        /\ store[DYNAMIC_CACHE][FORM_DATA_URL] = h[i].cached

\* C9: failed sync attempts never remove the pending submission, and under
\* fair sync signals and eventual POST success a stored submission is
\* eventually deleted.
C9_EventuallyDeleted ==
    /\ [][ \A i \in Slots :
             (h[i].kind = "sync" /\ h'[i] # h[i] /\ PostFailed(h'[i]))
             => (FormDataStored => FormDataStored') ]_vars
    /\ (FormDataStored ~> ~FormDataStored)
C9_Witness ==
    \E i, j \in Slots :
        /\ i # j
        /\ PostFailed(h[i]) /\ h[i].pc = "done"
        /\ h[j].kind = "sync" /\ h[j].pc = "done" /\ Ok(h[j].resp)
        /\ ~FormDataStored

\* C10: a CDN handler for the Tailwind URL whose cache lookup missed and whose
\* network fetch rejected returns the text/css fallback response.
C10_TailwindFallback ==
    \A i \in Slots :
        ( /\ h[i].kind = "cdn" /\ h[i].pc = "done" /\ h[i].failed
          /\ Includes(h[i].url, "tailwindcss.com") )
        => /\ h[i].cached = Undefined
           /\ h[i].result.t = "response"
           /\ h[i].result.ctype = "text/css"
           /\ h[i].result.body = "/* Tailwind CSS fallback */"
C10_Witness ==
    \E i \in Slots :
        /\ h[i].kind = "cdn" /\ h[i].pc = "done" /\ h[i].failed
        /\ h[i].url = TAILWIND_URL /\ h[i].cached = Undefined
        /\ h[i].result = TailwindFallback

\* C11: a CDN handler for a URL of the web-font service or the icon-font CDN
\* whose cache lookup missed and whose network fetch rejected rejects: it
\* produces no response.
C11_OtherCdnRejects ==
    \A i \in Slots :
        ( /\ h[i].kind = "cdn" /\ h[i].pc = "done" /\ h[i].failed
          /\ h[i].cached = Undefined
          /\ ~Includes(OriginOf(h[i].url), "cdn.tailwindcss.com") )
        => h[i].result = Rejected

\* C12: no step of a handleExternalRequest run reads or writes a cache; the
\* run never rejects: it returns the network response when the fetch
\* resolved and a synthetic response with status 503 when it rejected.
C12_ExternalNeverRejects ==
    [][ \A i \in Slots :
          (h'[i].kind = "ext" /\ h'[i] # h[i])
          => /\ store' = store /\ cacheNames' = cacheNames
             /\ h'[i].cached = Undefined
             /\ h'[i].result # Rejected
             /\ h'[i].pc = "done" =>
                   IF h'[i].failed
                   THEN h'[i].result.t = "response" /\ h'[i].result.status = 503
                   ELSE h'[i].result = Resp(h'[i].url, h'[i].id, h'[i].result.status)
      ]_vars
C12_Witness ==
    \E i, j \in Slots :
        /\ h[i].kind = "ext" /\ h[i].pc = "done" /\ h[i].failed
        /\ h[i].result.status = 503 /\ h[i].result.body = "Offline"
        /\ h[j].kind = "ext" /\ h[j].pc = "done" /\ ~h[j].failed
        /\ h[j].result = h[j].resp /\ h[j].net = 1

\* C13: a request whose method is not GET starts no handler, whatever its
\* origin: the listener returns without respondWith, no cache is read or
\* written, and no response is produced.
C13_NonGetNotIntercepted ==
    [][ \A i \in Slots :
          (h'[i].method \in (Methods \ {"GET"}) /\ h'[i] # h[i])
          => /\ h'[i].kind = "pass" /\ h'[i].pc = "done"
             /\ h'[i].result = Pending /\ h'[i].resp = Undefined
             /\ h'[i].cached = Undefined /\ h'[i].net = 0
             /\ store' = store /\ cacheNames' = cacheNames
      ]_vars
C13_Witness ==
    \E i \in Slots :
        /\ h[i].method = "POST" /\ h[i].kind = "pass" /\ h[i].pc = "done"
        /\ h[i].url = TAILWIND_URL /\ Has(STATIC_CACHE, TAILWIND_URL)
        /\ h[i].result = Pending /\ h[i].net = 0

\* The static generation right after an install whose cache.addAll fulfilled,
\* before the new worker has handled any event.
FreshlyInstalled == phase = "installed" /\ ~install.addAllFailed

Clicked(n) ==
    /\ n \in DOMAIN notifications /\ ~notifications[n].closed
    /\ notifications'[n].closed

\* C15: a click on a notification with the view action ('explore') or with no
\* action opens the site's root URL, a click on the dismiss action ('close')
\* opens nothing, and the notification is closed in every case.
C15_ClickOpensRoot ==
    [][ \A n \in 1..MaxNotifications :
          Clicked(n)
          => /\ notifications'[n].action \in {"explore", ""} => windows' = Append(windows, "/")
             /\ notifications'[n].action = "close" => windows' = windows
      ]_vars

\* C16: SKIP_WAITING calls skipWaiting and changes no cache; CACHE_URLS adds
\* its URLs to the dynamic generation and changes no other generation and
\* not the life cycle; any other message (or one with no data) changes
\* neither a cache nor the life cycle.
C16_MessageKinds ==
    [][ \A i \in Slots :
          (h'[i] # h[i] /\ h'[i].kind \in {"skip", "msg", "nomsg"})
          => /\ phase' = phase
             /\ \A n \in CacheNameSet \ {DYNAMIC_CACHE} : store'[n] = store[n]
             /\ h'[i].kind = "skip" =>
                   skipWaitingFlag' /\ store' = store /\ cacheNames' = cacheNames
             /\ h'[i].kind = "nomsg" =>
                   /\ skipWaitingFlag' = skipWaitingFlag
                   /\ store' = store /\ cacheNames' = cacheNames
             /\ h'[i].kind = "msg" =>
                   /\ skipWaitingFlag' = skipWaitingFlag
                   /\ Range(cacheNames') \subseteq Range(cacheNames) \cup {DYNAMIC_CACHE}
                   /\ (h'[i].pc = "done" /\ ~h'[i].failed) =>
                         /\ DOMAIN store'[DYNAMIC_CACHE] = DOMAIN store[DYNAMIC_CACHE] \cup h[i].urls
                         /\ \A u \in DOMAIN store[DYNAMIC_CACHE] \ h[i].urls :
                               store'[DYNAMIC_CACHE][u] = store[DYNAMIC_CACHE][u]
      ]_vars
C16_Witness ==
    \E i \in Slots :
        /\ h[i].kind = "msg" /\ h[i].pc = "done" /\ ~h[i].failed
        /\ h[i].urls = {OFFLINE_URL}
        /\ Has(DYNAMIC_CACHE, OFFLINE_URL)
        /\ store[DYNAMIC_CACHE][OFFLINE_URL] = Resp(OFFLINE_URL, h[i].id, 200)
        /\ DOMAIN store[STATIC_CACHE] = Range(STATIC_FILES)

\* The cache.put of fetch handler i completes in this step.
PutLands(i) ==
    /\ h[i].kind \in {"same", "cdn"} /\ h[i].pc = "put" /\ ~h[i].orphan
    /\ h'[i].pc = "done"

\* C17: every entry of every generation is the whole response stored for its
\* URL, and when the write of a fetch handler completes, the entry for its
\* URL is that handler's response, whatever other handlers for the same URL
\* wrote before (last write wins); no other entry changes.
C17_LastWriteWins ==
    /\ [](\A n \in CacheNameSet : \A u \in DOMAIN store[n] :
              store[n][u].t = "response" /\ store[n][u].url = u)
    /\ [][ \A i \in Slots :
             PutLands(i)
             => /\ DOMAIN store'[h[i].cache] = DOMAIN store[h[i].cache] \cup {h[i].url}
                /\ store'[h[i].cache][h[i].url] = h[i].resp
                /\ \A u \in DOMAIN store[h[i].cache] \ {h[i].url} :
                      store'[h[i].cache][u] = store[h[i].cache][u]
          ]_vars
\* Two handlers for the same URL have both written, and the entry is the
\* response of the one that started first: its write completed last.
C17_Witness ==
    \E i, j \in Slots :
        /\ i # j /\ h[i].kind = "same" /\ h[j].kind = "same"
        /\ h[i].ver = "new" /\ h[j].ver = "new"
        /\ h[i].url = h[j].url /\ h[i].pc = "done" /\ h[j].pc = "done"
        /\ Ok(h[i].resp) /\ Ok(h[j].resp) /\ h[i].id < h[j].id
        /\ store[DYNAMIC_CACHE][h[i].url] = h[i].resp

\* The sections whose content has the class 'open'.
OpenSections(f) == {x \in Sections : f.open[x]}

\* C18: at most one accordion section is open at any time; a click on the
\* button of a closed section opens it and leaves no other section open, a
\* click on the button of an open section closes it.
C18_OneSectionOpen ==
    /\ [](Cardinality(OpenSections(faq)) <= 1)
    /\ [][ \A k \in Sections :
             FaqClick(k)
             => OpenSections(faq') = IF faq.open[k] THEN {} ELSE {k} ]_vars
C18_Witness ==
    \E j, k \in Sections :
        /\ j # k /\ OpenSections(faq) = {k}
        /\ faq.expanded[k] = "true" /\ faq.icon[k] = "rotate(180deg)"
        /\ faq.expanded[j] = "false" /\ faq.icon[j] = "rotate(0deg)"

\* C19: currentStep stays within 1..totalSteps; a click on next advances by
\* one exactly when the current step is valid and not the last, and leaves
\* currentStep unchanged otherwise; a click on previous goes back by one
\* (not below 1) without validating; after each change of currentStep the
\* previous button is hidden exactly on step 1, the next button hidden and
\* the submit button shown exactly on the last step.
C19_StepNavigation ==
    /\ [](form.currentStep \in Steps)
    /\ [][ /\ NextClick =>
                form'.currentStep =
                    IF form.valid[form.currentStep] /\ form.currentStep < totalSteps
                    THEN form.currentStep + 1 ELSE form.currentStep
           /\ PrevClick =>
                /\ form'.currentStep =
                      IF form.currentStep > 1 THEN form.currentStep - 1 ELSE form.currentStep
                /\ form'.errors = form.errors
           /\ form'.currentStep # form.currentStep =>
                /\ form'.prevHidden <=> (form'.currentStep = 1)
                /\ form'.nextHidden <=> (form'.currentStep = totalSteps)
                /\ form'.submitHidden <=> (form'.currentStep # totalSteps)
         ]_vars
C19_Witness ==
    /\ form.currentStep = totalSteps /\ form.valid[1]
    /\ ~form.prevHidden /\ form.nextHidden /\ ~form.submitHidden
    /\ form.stepHidden[1] /\ ~form.stepHidden[totalSteps]

\* C20: the menu button's aria-expanded is 'true' exactly when the menu is
\* open, and the body's overflow is 'hidden' exactly when it is open; Escape
\* and a click outside the menu close an open menu and change nothing of a
\* closed one.
C20_MenuInSync ==
    /\ []( /\ (menu.expanded = "true") <=> IsOpen(menu)
           /\ (menu.overflow = "hidden") <=> IsOpen(menu) )
    /\ [][ (KeyDown("Escape") \/ MenuClick("page"))
           => /\ ~IsOpen(menu')
              /\ ~IsOpen(menu) =>
                    /\ menu'.classes = menu.classes /\ menu'.expanded = menu.expanded
                    /\ menu'.overflow = menu.overflow /\ menu'.traps = menu.traps
         ]_vars
C20_Witness ==
    /\ ~IsOpen(menu) /\ menu.classes = {"translate-x-full"}
    /\ menu.expanded = "false" /\ menu.overflow = ""
    /\ menu.focus = "menu" /\ menu.traps = 0

\* ------------------------------------------------------------------- C21
\* C21: whatever the order of the DOMContentLoaded or immediate call, the load
\* fallback and the emergency timeout, at most one PropGridApp instance is
\* ever constructed, and at most one instance is not destroyed.
C21_SingleInstance ==
    /\ Len(app.instances) <= 1
    /\ Cardinality({k \in DOMAIN app.instances : ~app.instances[k].isDestroyed}) <= 1

\* All three triggers have run and the one instance exists.
C21_Witness ==
    /\ app.pc = "ran" /\ app.readyState = "complete" /\ ~app.timeout
    /\ Len(app.instances) = 1
    /\ app.windowApp = 1

\* ------------------------------------------------------------------- C26
\* C26: however ticks, delayed add callbacks, stopSimulation and
\* startSimulation interleave, visibleEmails never holds a deal twice nor more
\* entries than emailDeals, and after an addEmail or a resetEmails the
\* displayed count is the length of visibleEmails.
C26_EmailCount ==
    /\ [](/\ \A x, y \in DOMAIN email.visibleEmails :
                email.visibleEmails[x] = email.visibleEmails[y] => x = y
          /\ Len(email.visibleEmails) <= Len(emailDeals))
    /\ [][(email'.pending < email.pending \/ email'.visibleEmails # email.visibleEmails)
            => email'.count = Len(email'.visibleEmails)]_vars

\* Every deal is listed and a further callback, scheduled while the last
\* one was pending, has run past the end.
C26_Witness ==
    /\ email.visibleEmails = emailDeals
    /\ email.currentEmailStep > Len(emailDeals)
    /\ email.count = Len(emailDeals)

\* ------------------------------------------------------------------- C25
\* C25: once an EmailSimulation has been constructed with its elements
\* present, every deal of emailDeals is eventually listed if the page ends up
\* visible and stays visible (and the app is not destroyed), however the
\* visibility pauses and resumes interleave with the delayed initial start.
C25_EveryDealListed ==
    (<>[](~app.hidden) /\ [](\A k \in DOMAIN app.instances : ~app.instances[k].isDestroyed))
        => ((email.constructed /\ email.container) ~> (email.visibleEmails = emailDeals))

\* ------------------------------------------------------------------- C22
\* A same-origin handler of the current worker whose fetch has succeeded.
SameFetched(i) ==
    /\ h[i].kind = "same" /\ h[i].ver = "new" /\ ~h[i].failed
    /\ h[i].pc \in {"open", "put", "done"}

\* C22: a same-origin GET whose network fetch succeeds returns the network
\* response; a copy is stored in the dynamic generation, replacing the entry
\* of that URL, only when the response is ok; for a non-ok response nothing
\* is written; the static generation is left unchanged either way.
C22_NetworkFirstStore ==
    /\ [](\A i \in Slots :
            SameFetched(i)
            => /\ h[i].pc \in {"put", "done"} => h[i].result = h[i].resp
               /\ h[i].pc \in {"open", "put"} => Ok(h[i].resp)
               /\ ~Ok(h[i].resp) => h[i].pc = "done" /\ h[i].cache = "")
    /\ [][ \A i \in Slots :
             (h[i].kind = "same" /\ h[i].ver = "new" /\ h[i].pc \in {"fetch", "open", "put"}
                /\ h'[i].pc # h[i].pc)
             => /\ store'[STATIC_CACHE] = store[STATIC_CACHE]
                /\ store' # store
                   => /\ h[i].pc = "put" /\ Ok(h[i].resp)
                      /\ store' = [store EXCEPT ![DYNAMIC_CACHE] =
                                      PutEntry(@, h[i].url, h[i].resp)]
                /\ h[i].pc = "put" => store'[DYNAMIC_CACHE][h[i].url] = h[i].resp
          ]_vars

\* Two handlers that ran together: one returned an ok response and its copy
\* is the dynamic entry, the other returned a 404 and left no entry.
C22_Witness ==
    \E i, j \in Slots :
        /\ SameFetched(i) /\ SameFetched(j)
        /\ h[i].pc = "done" /\ h[j].pc = "done"
        /\ Ok(h[i].resp) /\ h[i].result = h[i].resp
        /\ store[DYNAMIC_CACHE][h[i].url] = h[i].resp
        /\ h[j].result.t = "response" /\ h[j].result.status = 404
        /\ h[j].url # h[i].url
        /\ ~Has(DYNAMIC_CACHE, h[j].url)

\* ------------------------------------------------------------------- C23
\* A CDN handler of the current worker.
CdnHandler(i) == h[i].kind = "cdn" /\ h[i].ver = "new"

C24_ClaimAfterDeletions ==
    /\ [](activate.claimed => activate.toDelete = {} /\ activate.pc = "done")
    /\ [][(activate'.claimed /\ ~activate.claimed)
            => activate.pc = "delete" /\ activate.toDelete = {}]_vars
    /\ (phase = "activating") ~> activate.claimed

\* The old version's two generations were deleted, then control was claimed.
C24_Witness ==
    /\ activate.claimed /\ phase = "activated"
    /\ activate.stale = {OLD_STATIC_CACHE, OLD_DYNAMIC_CACHE}
    /\ ~Exists(OLD_STATIC_CACHE) /\ ~Exists(OLD_DYNAMIC_CACHE)

\* ------------------------------------------------------------------- C29
\* C29: whenever the mobile menu is closed no focus-trap keydown handler is
\* attached to it, and whenever it is open exactly one is, whichever way the
\* menu was closed.
C29_OneTrapWhileOpen ==
    /\ IsOpen(menu) => menu.traps = 1
    /\ ~IsOpen(menu) => menu.traps = 0

\* ------------------------------------------------------------------- C28
\* C28: the success state is reached only for a submission made with
\* currentStep = totalSteps and every step valid; a submit event that arrives
\* while step 1 is displayed never leads to the success state.
C28_SuccessOnlyFromLastStep ==
    form.success => form.submitted.step = totalSteps /\ form.submitted.allValid

\* ------------------------------------------------------------------- C27
\* C27: a submission with at least one invalid field sends no webhook request
\* and moves the focus to the first field, in the order email, city,
\* investment range, strategy, that this submission's validation found
\* invalid.
C27_FocusFirstInvalid ==
    /\ [](deal.last.kind = "invalid"
            => \E k \in DOMAIN DealFields :
                  /\ DealFields[k] \in deal.last.errors
                  /\ \A j \in 1..(k - 1) : DealFields[j] \notin deal.last.errors
                  /\ deal.focus = DealFields[k])
    /\ [][(deal'.last.kind = "invalid" /\ deal' # deal) => deal'.requests = deal.requests]_vars

\* ------------------------------------------------------------------- C30
\* C30: for any sequence of submissions, overlapping ones included, the
\* success and the error message are never both displayed, loading is true
\* exactly while a webhook request is in flight, a failed submission leaves
\* the field values unchanged, and they are cleared only on success.
C30_MessagesAndLoading ==
    /\ [](/\ ~(deal.success /\ deal.error # "")
          /\ deal.loading <=> deal.requests > 0)
    /\ [][/\ deal'.last.kind = "failed" /\ deal' # deal => deal'.values = deal.values
          /\ (deal'.values # deal.values /\ deal'.last.kind # "edit") => deal'.last.kind = "ok"
         ]_vars

====
